---- MODULE Spec2Model ----
(***************************************************************************)
(* Formula rearrangement drill: the equation tree built by drag and drop   *)
(* (components/DropZone.tsx), its serializer and completeness check        *)
(* (components/GameScreen.tsx) and the normalizing answer checker          *)
(* (services/geminiService.ts).                                            *)
(*                                                                         *)
(* Spec      the game screen: two equation sides edited by drops, removes  *)
(*           and resets, and the submit / verdict / retry / next cycle.    *)
(* SpecNorm  the answer checker as a pure function: a reference text and   *)
(*           an answer text are built token by token and then judged.      *)
(***************************************************************************)
EXTENDS Integers, Sequences, FiniteSets, TLC

VARIABLES
    leftSide,      \* GameScreen state: EquationSide left of '='
    rightSide,     \* GameScreen state: EquationSide right of '='
    problem,       \* GameScreen state: the Problem dealt, or NoProblem
    isLoading,     \* GameScreen state
    isChecking,    \* GameScreen state
    modalState,    \* GameScreen state: [isOpen, isCorrect, explanation]
    showSolution,  \* GameScreen state
    pending,       \* the handleSubmit call that awaits checkAnswer, with the result it will get
    lastOp,        \* the handler that ran since the last render, with the sides it started from
    gameMode,      \* App state, a prop of GameScreen: 'classic' or 'streak'
    quarks,        \* App state, a prop of GameScreen
    streak,        \* GameScreen state
    highScore,     \* GameScreen state, kept in localStorage as 'streakHighScore'
    nref,          \* checker specifications: right-hand side of the reference formula
    nuser,         \* checker specifications: right-hand side of the answer formula
    nkind,         \* checker specifications: how nref and nuser differ
    nout           \* checker specifications: what the checker computed for them

vars == <<leftSide, rightSide, problem, isLoading, isChecking, modalState,
          showSolution, pending, lastOp, gameMode, quarks, streak, highScore,
          nref, nuser, nkind, nout>>

scoreVars == <<gameMode, quarks, streak, highScore>>

gameVars == <<leftSide, rightSide, problem, isLoading, isChecking, modalState,
              showSolution, pending, lastOp, scoreVars>>

normVars == <<nref, nuser, nkind, nout>>

(***************************************************************************)
(* Bounds                                                                  *)
(***************************************************************************)
MaxItems == 2       \* Spec: items present in the two sides together
MaxTreeItems == 3   \* SpecTree, SpecSer: items present in the tree
MaxTextLen == 17    \* SpecNorm: characters of a right-hand side text

(***************************************************************************)
(* types.ts: the expression tree                                           *)
(***************************************************************************)
\* the item fields, in the order types.ts declares them
ItemFields == <<"id", "type", "content", "numerator", "denominator">>

emptySide == [items |-> <<>>]

DroppedSymbol(id, content) == [id |-> id, type |-> "symbol", content |-> content]

SqrtNode(id, content) == [id |-> id, type |-> "sqrt", content |-> content]

FractionNode(id, numerator, denominator) ==
    [id |-> id, type |-> "fraction", numerator |-> numerator, denominator |-> denominator]

\* the symbols the toolbar offers (DraggableSymbol): a quantity and the three
\* composite triggers
Symbols == {"m", "__square__", "__sqrt__", "__fraction__"}

\* the symbols dropped where only the shape of the tree matters
TreeSymbols == {"m", "__sqrt__", "__fraction__"}

\* the child slots of an item, in rendering order
Slots(item) ==
    CASE item.type = "sqrt"     -> <<"content">>
      [] item.type = "fraction" -> <<"numerator", "denominator">>
      [] OTHER                  -> <<>>

RECURSIVE CountItems(_)
CountItems(side) ==
    LET RECURSIVE Sum(_)
        Sum(k) == IF k = 0 THEN 0
                  ELSE LET item == side.items[k]
                           below == IF Len(Slots(item)) = 0 THEN 0
                                    ELSE IF Len(Slots(item)) = 1
                                         THEN CountItems(item[Slots(item)[1]])
                                         ELSE CountItems(item[Slots(item)[1]])
                                              + CountItems(item[Slots(item)[2]])
                       IN  1 + below + Sum(k - 1)
    IN Sum(Len(side.items))

RECURSIVE IdsOf(_)
IdsOf(side) ==
    UNION { {side.items[k].id}
            \cup UNION { IdsOf(side.items[k][Slots(side.items[k])[s]])
                         : s \in 1..Len(Slots(side.items[k])) }
          : k \in 1..Len(side.items) }

(***************************************************************************)
(* DropZone.tsx: paths and getNested                                       *)
(***************************************************************************)
\* A path is the array the components pass down: 'items', then for every
\* level an index (0-based), a slot name and 'items' again.

\* RecursiveDropZone: the `path` prop of every drop zone rendered for `side`
\* whose own path is `path`
RECURSIVE DropZonePaths(_, _)
DropZonePaths(side, path) ==
    {path} \cup
    UNION { UNION { DropZonePaths(side.items[k][Slots(side.items[k])[s]],
                                  path \o <<k - 1, Slots(side.items[k])[s], "items">>)
                    : s \in 1..Len(Slots(side.items[k])) }
          : k \in 1..Len(side.items) }

\* RecursiveDropZone: the `path` prop of every EquationItem rendered
RECURSIVE ItemPaths(_, _)
ItemPaths(side, path) ==
    UNION { {path \o <<k - 1>>} \cup
            UNION { ItemPaths(side.items[k][Slots(side.items[k])[s]],
                              path \o <<k - 1, Slots(side.items[k])[s], "items">>)
                    : s \in 1..Len(Slots(side.items[k])) }
          : k \in 1..Len(side.items) }

\* a JavaScript value reached by getNested, tagged with what it is
Undefined == [kind |-> "undefined"]

JsValue(kind, val) == [kind |-> kind, val |-> val]

\* acc && acc[part]
GetPart(acc, part) ==
    CASE acc.kind = "side" ->
            IF part = "items" THEN JsValue("array", acc.val.items) ELSE Undefined
      [] acc.kind = "array" ->
            IF part >= 0 /\ part < Len(acc.val)
            THEN JsValue("item", acc.val[part + 1]) ELSE Undefined
      [] acc.kind = "item" ->
            IF part \in DOMAIN acc.val
            THEN IF part \in {"id", "type"} \/ (part = "content" /\ acc.val.type = "symbol")
                 THEN JsValue("string", acc.val[part])
                 ELSE JsValue("side", acc.val[part])
            ELSE Undefined
      [] OTHER -> Undefined

RECURSIVE getNested(_, _)
getNested(obj, path) ==
    IF Len(path) = 0 THEN obj
    ELSE getNested(GetPart(obj, Head(path)), Tail(path))

IsArray(v) == v.kind = "array"

\* array.splice(index) on a draft, the count left out: the array afterwards
SpliceOutToEnd(arr, index) ==
    SubSeq(arr, 1, IF index < Len(arr) THEN index ELSE Len(arr))

\* array.splice(index, 1) on a draft: the array afterwards
SpliceOut(arr, index) ==
    [k \in 1..(IF index < Len(arr) THEN Len(arr) - 1 ELSE Len(arr)) |->
        IF k <= index THEN arr[k] ELSE arr[k + 1]]

\* array.splice(index, 0, item) on a draft: the array afterwards
SpliceIn(arr, index, item) ==
    LET at == IF index > Len(arr) THEN Len(arr) ELSE index
    IN  [k \in 1..(Len(arr) + 1) |->
            IF k <= at THEN arr[k] ELSE IF k = at + 1 THEN item ELSE arr[k - 1]]

\* the root after immer has replaced the array at `path` by `arr`
RECURSIVE SetArray(_, _, _)
SetArray(side, path, arr) ==
    IF Len(path) = 1 THEN [side EXCEPT !.items = arr]
    ELSE LET k    == path[2] + 1
             slot == path[3]
         IN  [side EXCEPT !.items[k][slot] =
                 SetArray(side.items[k][slot], SubSeq(path, 4, Len(path)), arr)]


(***************************************************************************)
(* Strings                                                                 *)
(***************************************************************************)
CharAt(s, i) == SubSeq(s, i, i)

Upper == "ABCDEFGHIJKLMNOPQRSTUVWXYZ"

Lower == "abcdefghijklmnopqrstuvwxyz"

Punct == " !\"#$%&'()*+,-./0123456789:;<=>?@"

\* the UTF-16 code unit of a one-character string
CharCode(c) ==
    IF \E i \in 1..Len(Punct) : CharAt(Punct, i) = c
    THEN 31 + (CHOOSE i \in 1..Len(Punct) : CharAt(Punct, i) = c)
    ELSE IF \E i \in 1..26 : CharAt(Upper, i) = c
    THEN 64 + (CHOOSE i \in 1..26 : CharAt(Upper, i) = c)
    ELSE IF \E i \in 1..26 : CharAt(Lower, i) = c
    THEN 96 + (CHOOSE i \in 1..26 : CharAt(Lower, i) = c)
    ELSE IF c = "^" THEN 94
    ELSE IF c = "_" THEN 95
    ELSE IF c = "Δ" THEN 916
    ELSE IF c = "α" THEN 945
    ELSE IF c = "θ" THEN 952
    ELSE IF c = "ρ" THEN 961
    ELSE 127

\* String.prototype.trim
RECURSIVE Trim(_)
Trim(s) ==
    IF Len(s) = 0 THEN s
    ELSE IF CharAt(s, 1) = " " THEN Trim(SubSeq(s, 2, Len(s)))
    ELSE IF CharAt(s, Len(s)) = " " THEN Trim(SubSeq(s, 1, Len(s) - 1))
    ELSE s

\* s.replace(/\s+/g, '')
RECURSIVE StripWhitespace(_)
StripWhitespace(s) ==
    IF Len(s) = 0 THEN s
    ELSE IF CharAt(s, 1) = " " THEN StripWhitespace(SubSeq(s, 2, Len(s)))
    ELSE CharAt(s, 1) \o StripWhitespace(SubSeq(s, 2, Len(s)))

\* Array.prototype.join
RECURSIVE Join(_, _)
Join(parts, sep) ==
    IF Len(parts) = 0 THEN ""
    ELSE IF Len(parts) = 1 THEN parts[1]
    ELSE parts[1] \o sep \o Join(Tail(parts), sep)

\* String.prototype.split with a one-character separator
RECURSIVE Split(_, _)
Split(s, sep) ==
    LET hits == {i \in 1..Len(s) : CharAt(s, i) = sep}
    IN  IF hits = {} THEN <<s>>
        ELSE LET i == CHOOSE h \in hits : \A g \in hits : h <= g
             IN  <<SubSeq(s, 1, i - 1)>> \o Split(SubSeq(s, i + 1, Len(s)), sep)

Includes(s, c) == \E i \in 1..Len(s) : CharAt(s, i) = c

StartsWith(s, p) == Len(s) >= Len(p) /\ SubSeq(s, 1, Len(p)) = p

EndsWith(s, p) == Len(s) >= Len(p) /\ SubSeq(s, Len(s) - Len(p) + 1, Len(s)) = p

\* the order Array.prototype.sort() puts strings in: by code unit, a proper
\* prefix first
RECURSIVE StringLess(_, _)
StringLess(a, b) ==
    IF Len(b) = 0 THEN FALSE
    ELSE IF Len(a) = 0 THEN TRUE
    ELSE IF CharAt(a, 1) = CharAt(b, 1)
         THEN StringLess(SubSeq(a, 2, Len(a)), SubSeq(b, 2, Len(b)))
         ELSE CharCode(CharAt(a, 1)) < CharCode(CharAt(b, 1))

\* the array left in the order it came in
SortLeftOut(arr) == arr

\* Array.prototype.sort() without a comparator
RECURSIVE Sort(_)
Sort(arr) ==
    IF Len(arr) <= 1 THEN arr
    ELSE LET rest == Sort(Tail(arr))
             x    == Head(arr)
             n    == Cardinality({k \in 1..Len(rest) : StringLess(rest[k], x)})
         IN  SubSeq(rest, 1, n) \o <<x>> \o SubSeq(rest, n + 1, Len(rest))

(***************************************************************************)
(* GameScreen.tsx: serializer and completeness check                       *)
(***************************************************************************)
RECURSIVE serializeSide(_)
\* serializeSide without the case of the square trigger
serializeSideSquareAsToken(side) ==
    LET serializeItem(item) ==
            IF item.type = "symbol" THEN item.content
            ELSE IF item.type = "sqrt"
            THEN LET content == serializeSide(item.content)
                 IN  "sqrt(" \o (IF content = "" THEN " " ELSE content) \o ")"
            ELSE IF item.type = "fraction"
            THEN LET numeratorPart   == serializeSide(item.numerator)
                     denominatorPart == serializeSide(item.denominator)
                     num == IF Len(item.numerator.items) > 1
                            THEN "( " \o numeratorPart \o " )"
                            ELSE IF numeratorPart = "" THEN " " ELSE numeratorPart
                     den == IF Len(item.denominator.items) > 1
                            THEN "( " \o denominatorPart \o " )"
                            ELSE IF denominatorPart = "" THEN " " ELSE denominatorPart
                 IN  num \o " / " \o den
            ELSE ""
    IN  Trim(Join([k \in 1..Len(side.items) |-> serializeItem(side.items[k])], " "))

serializeSide(side) ==
    LET serializeItem(item) ==
            IF item.type = "symbol"
            THEN IF item.content = "__square__" THEN "^2" ELSE item.content
            ELSE IF item.type = "sqrt"
            THEN LET content == serializeSide(item.content)
                 IN  "sqrt(" \o (IF content = "" THEN " " ELSE content) \o ")"
            ELSE IF item.type = "fraction"
            THEN LET numeratorPart   == serializeSide(item.numerator)
                     denominatorPart == serializeSide(item.denominator)
                     num == IF Len(item.numerator.items) > 1
                            THEN "( " \o numeratorPart \o " )"
                            ELSE IF numeratorPart = "" THEN " " ELSE numeratorPart
                     den == IF Len(item.denominator.items) > 1
                            THEN "( " \o denominatorPart \o " )"
                            ELSE IF denominatorPart = "" THEN " " ELSE denominatorPart
                 IN  num \o " / " \o den
            ELSE ""
        serializeItems(items) ==
            Join([k \in 1..Len(items) |-> serializeItem(items[k])], " ")
    IN  Trim(serializeItems(side.items))

RECURSIVE isSideSubmittable(_)
\* isSideSubmittable without the test of the denominator
isSideSubmittableNumeratorOnly(side) ==
    IF Len(side.items) = 0 THEN FALSE
    ELSE \A k \in 1..Len(side.items) :
            LET item == side.items[k]
            IN  /\ item.type = "sqrt" =>
                      ~(Len(item.content.items) = 0 \/ ~isSideSubmittable(item.content))
                /\ item.type = "fraction" =>
                      /\ ~(Len(item.numerator.items) = 0)
                      /\ isSideSubmittable(item.numerator)

isSideSubmittable(side) ==
    IF Len(side.items) = 0 THEN FALSE
    ELSE \A k \in 1..Len(side.items) :
            LET item == side.items[k]
            IN  /\ item.type = "sqrt" =>
                      ~(Len(item.content.items) = 0 \/ ~isSideSubmittable(item.content))
                /\ item.type = "fraction" =>
                      /\ ~(Len(item.numerator.items) = 0 \/ Len(item.denominator.items) = 0)
                      /\ isSideSubmittable(item.numerator)
                      /\ isSideSubmittable(item.denominator)

isSideEmpty(side) == Len(side.items) = 0

(***************************************************************************)
(* geminiService.ts: the local answer checker                              *)
(***************************************************************************)
RECURSIVE normalizeSide(_)
\* normalizeSide sorting the terms of a sum as it sorts the factors of a product
normalizeSideSortsSums(side) ==
    LET stripped == StripWhitespace(side)
        \* replace(/\(([^()]+)\)/g, ...): every '(' followed by one or more
        \* non-parenthesis characters and a ')' is rewritten, left to right
        RECURSIVE ReplaceGroups(_)
        ReplaceGroups(s) ==
            IF Len(s) = 0 THEN s
            ELSE IF CharAt(s, 1) # "(" THEN CharAt(s, 1) \o ReplaceGroups(SubSeq(s, 2, Len(s)))
            ELSE LET parens == {i \in 2..Len(s) : CharAt(s, i) \in {"(", ")"}}
                 IN  IF parens = {} THEN s
                     ELSE LET j == CHOOSE p \in parens : \A q \in parens : p <= q
                          IN  IF CharAt(s, j) = ")" /\ j > 2
                              THEN "(" \o normalizeSide(SubSeq(s, 2, j - 1)) \o ")"
                                   \o ReplaceGroups(SubSeq(s, j + 1, Len(s)))
                              ELSE "(" \o ReplaceGroups(SubSeq(s, 2, Len(s)))
        normalized == ReplaceGroups(stripped)
        \* the scan for the first '/' at parenCount 0; 0 stands for -1
        RECURSIVE Scan(_, _)
        Scan(i, parenCount) ==
            IF i > Len(normalized) THEN 0
            ELSE IF CharAt(normalized, i) = "(" THEN Scan(i + 1, parenCount + 1)
            ELSE IF CharAt(normalized, i) = ")" THEN Scan(i + 1, parenCount - 1)
            ELSE IF CharAt(normalized, i) = "/" /\ parenCount = 0 THEN i
            ELSE Scan(i + 1, parenCount)
        divisionIndex == Scan(1, 0)
    IN  IF StartsWith(normalized, "sqrt(") /\ EndsWith(normalized, ")")
        THEN "sqrt(" \o normalizeSide(SubSeq(normalized, 6, Len(normalized) - 1)) \o ")"
        ELSE IF divisionIndex # 0
        THEN normalizeSide(SubSeq(normalized, 1, divisionIndex - 1)) \o "/"
             \o normalizeSide(SubSeq(normalized, divisionIndex + 1, Len(normalized)))
        ELSE IF Includes(normalized, "*")
        THEN Join(Sort(Split(normalized, "*")), "*")
        ELSE IF Includes(normalized, "+")
        THEN Join(Sort(Split(normalized, "+")), "+")
        ELSE normalized

normalizeSide(side) ==
    LET stripped == StripWhitespace(side)
        \* replace(/\(([^()]+)\)/g, ...): every '(' followed by one or more
        \* non-parenthesis characters and a ')' is rewritten, left to right
        RECURSIVE ReplaceGroups(_)
        ReplaceGroups(s) ==
            IF Len(s) = 0 THEN s
            ELSE IF CharAt(s, 1) # "(" THEN CharAt(s, 1) \o ReplaceGroups(SubSeq(s, 2, Len(s)))
            ELSE LET parens == {i \in 2..Len(s) : CharAt(s, i) \in {"(", ")"}}
                 IN  IF parens = {} THEN s
                     ELSE LET j == CHOOSE p \in parens : \A q \in parens : p <= q
                          IN  IF CharAt(s, j) = ")" /\ j > 2
                              THEN "(" \o normalizeSide(SubSeq(s, 2, j - 1)) \o ")"
                                   \o ReplaceGroups(SubSeq(s, j + 1, Len(s)))
                              ELSE "(" \o ReplaceGroups(SubSeq(s, 2, Len(s)))
        normalized == ReplaceGroups(stripped)
        \* the scan for the first '/' at parenCount 0; 0 stands for -1
        RECURSIVE Scan(_, _)
        Scan(i, parenCount) ==
            IF i > Len(normalized) THEN 0
            ELSE IF CharAt(normalized, i) = "(" THEN Scan(i + 1, parenCount + 1)
            ELSE IF CharAt(normalized, i) = ")" THEN Scan(i + 1, parenCount - 1)
            ELSE IF CharAt(normalized, i) = "/" /\ parenCount = 0 THEN i
            ELSE Scan(i + 1, parenCount)
        divisionIndex == Scan(1, 0)
    IN  IF StartsWith(normalized, "sqrt(") /\ EndsWith(normalized, ")")
        THEN "sqrt(" \o normalizeSide(SubSeq(normalized, 6, Len(normalized) - 1)) \o ")"
        ELSE IF divisionIndex # 0
        THEN normalizeSide(SubSeq(normalized, 1, divisionIndex - 1)) \o "/"
             \o normalizeSide(SubSeq(normalized, divisionIndex + 1, Len(normalized)))
        ELSE IF Includes(normalized, "*")
        THEN Join(Sort(Split(normalized, "*")), "*")
        ELSE normalized

\* normalizeFormula taking the fallback only when there is no '='
normalizeFormulaFirstTwoParts(formula) ==
    LET parts == Split(formula, "=")
    IN  IF Len(parts) < 2 THEN StripWhitespace(formula)
        ELSE Trim(parts[1]) \o "=" \o normalizeSide(Trim(parts[2]))

normalizeFormula(formula) ==
    LET parts == Split(formula, "=")
    IN  IF Len(parts) # 2 THEN StripWhitespace(formula)
        ELSE Trim(parts[1]) \o "=" \o normalizeSide(Trim(parts[2]))

\* checkAnswer comparing with the reference as it is stored
checkAnswerReferenceRaw(p, userAnswer) ==
    normalizeFormula(userAnswer) = p.correctAnswer

\* the isCorrect field of the ValidationResponse
checkAnswer(p, userAnswer) ==
    normalizeFormula(userAnswer) = normalizeFormula(p.correctAnswer)

(***************************************************************************)
(* DropZone.tsx: the three tree mutations, each the immer recipe applied   *)
(* to parentSide and the root handed to onSideChange                       *)
(***************************************************************************)
\* EquationItem.handleRemove; `path` is the path of the item
\* handleRemove taking an index behind the end for the last item
handleRemoveLastWhenBehind(parentSide, path) ==
    LET containerPath == SubSeq(path, 1, Len(path) - 1)
        container     == getNested(JsValue("side", parentSide), containerPath)
        index         == path[Len(path)]
    IN  IF IsArray(container)
        THEN SetArray(parentSide, containerPath,
                      SpliceOut(container.val,
                                IF index >= Len(container.val) /\ Len(container.val) > 0
                                THEN Len(container.val) - 1 ELSE index))
        ELSE parentSide

handleRemove(parentSide, path) ==
    LET containerPath == SubSeq(path, 1, Len(path) - 1)
        container     == getNested(JsValue("side", parentSide), containerPath)
        index         == path[Len(path)]
    IN  IF IsArray(container)
        THEN SetArray(parentSide, containerPath, SpliceOut(container.val, index))
        ELSE parentSide

\* handleDropReorder with the two splices exchanged: the item is put at
\* newIndex of the container as it is before the removal
handleDropReorderInsertFirst(parentSide, sourcePath, path, newIndex) ==
    LET sourceContainerPath == SubSeq(sourcePath, 1, Len(sourcePath) - 1)
        sourceContainer     == getNested(JsValue("side", parentSide), sourceContainerPath)
        sourceIndex         == sourcePath[Len(sourcePath)]
        targetContainer     == getNested(JsValue("side", parentSide), path)
    IN  IF ~IsArray(sourceContainer) \/ ~IsArray(targetContainer) THEN parentSide
        ELSE IF sourceIndex >= Len(sourceContainer.val) THEN parentSide
        ELSE LET removedItem == sourceContainer.val[sourceIndex + 1]
                 draft == SetArray(parentSide, path,
                                   SpliceIn(targetContainer.val, newIndex, removedItem))
                 shifted == IF sourceContainerPath = path /\ newIndex <= sourceIndex
                            THEN sourceIndex + 1 ELSE sourceIndex
                 again == getNested(JsValue("side", draft), sourceContainerPath)
             IN  IF ~IsArray(again) THEN draft
                 ELSE SetArray(draft, sourceContainerPath, SpliceOut(again.val, shifted))

\* RecursiveDropZone.handleDrop, reordering an existing item; `path` is the
\* path of the drop zone that received the drop
handleDropReorder(parentSide, sourcePath, path, newIndex) ==
    LET sourceContainerPath == SubSeq(sourcePath, 1, Len(sourcePath) - 1)
        sourceContainer     == getNested(JsValue("side", parentSide), sourceContainerPath)
        sourceIndex         == sourcePath[Len(sourcePath)]
    IN  IF ~IsArray(sourceContainer) THEN parentSide
        ELSE IF sourceIndex >= Len(sourceContainer.val) THEN parentSide
        ELSE LET removedItem == sourceContainer.val[sourceIndex + 1]
                 draft == SetArray(parentSide, sourceContainerPath,
                                   SpliceOut(sourceContainer.val, sourceIndex))
                 targetContainer == getNested(JsValue("side", draft), path)
             IN  IF ~IsArray(targetContainer) THEN draft
                 ELSE SetArray(draft, path,
                               SpliceIn(targetContainer.val, newIndex, removedItem))

\* RecursiveDropZone.handleDrop, adding a new item from the toolbar: the item
\* built for the dropped symbol
NewItem(id, symbol) ==
    IF symbol = "__fraction__" THEN FractionNode(id, emptySide, emptySide)
    ELSE IF symbol = "__sqrt__" THEN SqrtNode(id, emptySide)
    ELSE DroppedSymbol(id, symbol)

\* handleDropInsert putting the new item behind the last one
handleDropInsertAtEnd(parentSide, path, newIndex, newItem) ==
    LET targetContainer == getNested(JsValue("side", parentSide), path)
    IN  IF IsArray(targetContainer)
        THEN SetArray(parentSide, path, Append(targetContainer.val, newItem))
        ELSE parentSide

handleDropInsert(parentSide, path, newIndex, newItem) ==
    LET targetContainer == getNested(JsValue("side", parentSide), path)
    IN  IF IsArray(targetContainer)
        THEN SetArray(parentSide, path, SpliceIn(targetContainer.val, newIndex, newItem))
        ELSE parentSide

(***************************************************************************)
(* GameScreen.tsx: the screen                                              *)
(***************************************************************************)
Sides == {"left", "right"}

SideOf(which) == IF which = "left" THEN leftSide ELSE rightSide

NoProblem == [originalFormula |-> "", targetVariable |-> "", correctAnswer |-> ""]

\* getPhysicsProblem: entries of PREDEFINED_FORMULAS / PRECOMPUTED_ANSWERS
Problems ==
    { [originalFormula |-> "Fz = m * g", targetVariable |-> "m", correctAnswer |-> "m = Fz / g"] }

NoPending == [active |-> FALSE, isCorrect |-> FALSE, failed |-> FALSE]

closedModal == [isOpen |-> FALSE, isCorrect |-> FALSE, explanation |-> ""]

\* the explanation of the ValidationResponse: the text of the return
\* statement that produced it
Explanation(response) ==
    IF response.failed THEN "Er is een onverwachte fout opgetreden"
    ELSE IF response.isCorrect THEN "Goed gedaan!"
    ELSE "Dat is niet helemaal juist."

NoOp == [kind |-> "none", side |-> "left", sourcePath |-> <<>>, path |-> <<>>,
         index |-> 0, left |-> emptySide, right |-> emptySide]

Op(kind, side, sourcePath, path, index) ==
    [kind |-> kind, side |-> side, sourcePath |-> sourcePath, path |-> path,
     index |-> index, left |-> leftSide, right |-> rightSide]

isEquationEmpty == isSideEmpty(leftSide) /\ isSideEmpty(rightSide)

\* canSubmit looking at the left side alone
canSubmitLeftOnly == isSideSubmittable(leftSide)

canSubmit == isSideSubmittable(leftSide) /\ isSideSubmittable(rightSide)

\* React has rendered the current state: the handlers of the components carry
\* the paths of the current tree
Rendered == lastOp.kind = "none"

\* the equation area and its buttons are rendered and not covered by the modal
BoardShown == Rendered /\ ~isLoading /\ problem # NoProblem /\ ~modalState.isOpen

\* an identifier counted up from the number of items on the screen
FreshIdByCount == CountItems(leftSide) + CountItems(rightSide) + 1

\* uuidv4(): an identifier no item of the equation carries
FreshId == CHOOSE n \in 1..(CountItems(leftSide) + CountItems(rightSide) + 1) :
              /\ n \notin IdsOf(leftSide) \cup IdsOf(rightSide)
              /\ \A k \in 1..(n - 1) : k \in IdsOf(leftSide) \cup IdsOf(rightSide)

SetSide(which, newSide) ==
    /\ leftSide'  = IF which = "left" THEN newSide ELSE leftSide
    /\ rightSide' = IF which = "right" THEN newSide ELSE rightSide

\* the drop index handleDragOver can have set for the drop zone at `path`
DropIndexes(which, path) == 0..Len(getNested(JsValue("side", SideOf(which)), path).val)

GameModes == {"classic", "streak"}

\* constants.ts: the number of quarks a classic game collects
MAX_QUARKS == 50

\* setQuarks(q => q + 1)
earnQuarkUncapped(q) == q + 1

\* setQuarks(q => Math.min(q + 1, MAX_QUARKS))
earnQuark(q) == IF q + 1 < MAX_QUARKS THEN q + 1 ELSE MAX_QUARKS

\* the streak kept when the answer is wrong
streakAfterKeptOnWrong(s, isCorrect) == IF isCorrect THEN s + 1 ELSE s

\* setStreak(s => s + 1) on a correct answer, setStreak(0) on a wrong one
streakAfter(s, isCorrect) == IF isCorrect THEN s + 1 ELSE 0

\* App.startGame('classic') with nothing in localStorage
ScoreInit ==
    /\ gameMode = "classic"
    /\ quarks = 0
    /\ streak = 0
    /\ highScore = 0

GameInit ==
    /\ ScoreInit
    /\ leftSide = emptySide
    /\ rightSide = emptySide
    /\ problem = NoProblem
    /\ isLoading = TRUE
    /\ isChecking = FALSE
    /\ modalState = closedModal
    /\ showSolution = FALSE
    /\ pending = NoPending
    /\ lastOp = NoOp

\* the components are rendered again after a state update, and the effect
\* that keeps the high score runs
Render ==
    /\ ~Rendered
    /\ lastOp' = NoOp
    /\ highScore' = IF gameMode = "streak" /\ streak > highScore THEN streak ELSE highScore
    /\ UNCHANGED <<leftSide, rightSide, problem, isLoading, isChecking, modalState,
                   showSolution, pending, normVars, gameMode, quarks, streak>>

\* fetchNewProblem setting the problem and leaving the sides
FetchDoneKeepsSides ==
    /\ Rendered
    /\ isLoading
    /\ \E p \in Problems : problem' = p
    /\ isLoading' = FALSE
    /\ lastOp' = Op("fetch", "left", <<>>, <<>>, 0)
    /\ UNCHANGED <<leftSide, rightSide, isChecking, modalState, showSolution, pending,
                   normVars, scoreVars>>

\* fetchNewProblem after its await: the problem is set and both sides emptied
FetchDone ==
    /\ Rendered
    /\ isLoading
    /\ \E p \in Problems : problem' = p
    /\ leftSide' = emptySide
    /\ rightSide' = emptySide
    /\ isLoading' = FALSE
    /\ lastOp' = Op("fetch", "left", <<>>, <<>>, 0)
    /\ UNCHANGED <<isChecking, modalState, showSolution, pending, normVars, scoreVars>>

\* RecursiveDropZone.handleDrop: a toolbar symbol is dropped on a drop zone
DropInsert(which, symbol) ==
    /\ BoardShown
    /\ \E path \in DropZonePaths(SideOf(which), <<"items">>) :
         \E newIndex \in DropIndexes(which, path) :
            /\ SetSide(which, handleDropInsert(SideOf(which), path, newIndex,
                                               NewItem(FreshId, symbol)))
            /\ lastOp' = Op("insert", which, <<>>, path, newIndex)
    /\ UNCHANGED <<problem, isLoading, isChecking, modalState, showSolution, pending,
                   normVars, scoreVars>>

\* RecursiveDropZone.handleDrop: an item dragged out of side `from` is dropped
\* on a drop zone of side `which`
DropReorder(from, which) ==
    /\ BoardShown
    /\ \E sourcePath \in ItemPaths(SideOf(from), <<"items">>) :
         \E path \in DropZonePaths(SideOf(which), <<"items">>) :
          \E newIndex \in DropIndexes(which, path) :
            /\ SetSide(which, handleDropReorder(SideOf(which), sourcePath, path, newIndex))
            /\ lastOp' = Op(IF from = which THEN "reorder" ELSE "reorderAcross",
                            which, sourcePath, path, newIndex)
    /\ UNCHANGED <<problem, isLoading, isChecking, modalState, showSolution, pending,
                   normVars, scoreVars>>

\* EquationItem.handleRemove: the remove button of an item is clicked
Remove(which) ==
    /\ BoardShown
    /\ \E path \in ItemPaths(SideOf(which), <<"items">>) :
            /\ SetSide(which, handleRemove(SideOf(which), path))
            /\ lastOp' = Op("remove", which, <<>>, path, 0)
    /\ UNCHANGED <<problem, isLoading, isChecking, modalState, showSolution, pending,
                   normVars, scoreVars>>

handleReset ==
    /\ leftSide' = emptySide
    /\ rightSide' = emptySide

\* the reset button is clicked
Reset ==
    /\ BoardShown
    /\ ~isEquationEmpty
    /\ handleReset
    /\ lastOp' = Op("reset", "left", <<>>, <<>>, 0)
    /\ UNCHANGED <<problem, isLoading, isChecking, modalState, showSolution, pending,
                   normVars, scoreVars>>

\* the submit button with disabled={!canSubmit}
SubmitEnabledWhileChecking == canSubmit

\* the submit button: disabled={isChecking || !canSubmit}
SubmitEnabled == ~(isChecking \/ ~canSubmit)

\* handleSubmit up to its await: the submit button is clicked
Submit ==
    /\ BoardShown
    /\ SubmitEnabled
    /\ isChecking' = TRUE
    /\ pending' = [active |-> TRUE,
                   isCorrect |-> checkAnswer(problem, serializeSide(leftSide) \o " = "
                                                      \o serializeSide(rightSide)),
                   failed |-> FALSE]
    /\ lastOp' = Op("submit", "left", <<>>, <<>>, 0)
    /\ UNCHANGED <<leftSide, rightSide, problem, isLoading, modalState, showSolution,
                   normVars, scoreVars>>

\* handleSubmit up to its await, the check going to fail: checkAnswer will
\* return the response of its catch block
SubmitFailing ==
    /\ BoardShown
    /\ SubmitEnabled
    /\ isChecking' = TRUE
    /\ pending' = [active |-> TRUE, isCorrect |-> FALSE, failed |-> TRUE]
    /\ lastOp' = Op("submit", "left", <<>>, <<>>, 0)
    /\ UNCHANGED <<leftSide, rightSide, problem, isLoading, modalState, showSolution,
                   normVars, scoreVars>>

\* handleSubmit after its await: the verdict is shown
SubmitDone ==
    /\ Rendered
    /\ pending.active
    /\ modalState' = [isOpen |-> TRUE, isCorrect |-> pending.isCorrect,
                      explanation |-> Explanation(pending)]
    /\ showSolution' = FALSE
    /\ isChecking' = FALSE
    /\ pending' = NoPending
    /\ lastOp' = Op("verdict", "left", <<>>, <<>>, 0)
    /\ quarks' = IF pending.isCorrect /\ gameMode = "classic" THEN earnQuark(quarks) ELSE quarks
    /\ streak' = IF gameMode = "streak" THEN streakAfter(streak, pending.isCorrect) ELSE streak
    /\ UNCHANGED <<leftSide, rightSide, problem, isLoading, normVars, gameMode, highScore>>

\* handleRetry
Retry ==
    /\ Rendered
    /\ modalState.isOpen /\ ~modalState.isCorrect /\ ~showSolution
    /\ modalState' = closedModal
    /\ showSolution' = FALSE
    /\ handleReset
    /\ lastOp' = Op("retry", "left", <<>>, <<>>, 0)
    /\ UNCHANGED <<problem, isLoading, isChecking, pending, normVars, scoreVars>>

\* handleGiveUp
GiveUp ==
    /\ Rendered
    /\ modalState.isOpen /\ ~modalState.isCorrect /\ ~showSolution
    /\ showSolution' = TRUE
    /\ lastOp' = Op("giveUp", "left", <<>>, <<>>, 0)
    /\ UNCHANGED <<leftSide, rightSide, problem, isLoading, isChecking, modalState,
                   pending, normVars, scoreVars>>

\* handleProceedToNextProblem and fetchNewProblem up to its await
Proceed ==
    /\ Rendered
    /\ modalState.isOpen
    /\ modalState' = closedModal
    /\ isLoading' = TRUE
    /\ showSolution' = FALSE
    /\ lastOp' = Op("proceed", "left", <<>>, <<>>, 0)
    /\ UNCHANGED <<leftSide, rightSide, problem, isChecking, pending, normVars, scoreVars>>

NormIdle == nref = "" /\ nuser = "" /\ nkind = "same" /\ nout = [checked |-> FALSE]

Init == GameInit /\ NormIdle

Next ==
    \/ Render
    \/ FetchDone
    \/ /\ CountItems(leftSide) + CountItems(rightSide) < MaxItems
       /\ \E which \in Sides, symbol \in Symbols : DropInsert(which, symbol)
    \/ \E from \in Sides, which \in Sides : DropReorder(from, which)
    \/ \E which \in Sides : Remove(which)
    \/ Reset
    \/ Submit
    \/ SubmitFailing
    \/ SubmitDone
    \/ Retry
    \/ GiveUp
    \/ Proceed

Spec == Init /\ [][Next]_vars

(***************************************************************************)
(* SpecTree: the mutation engine on one tree.  The screen shows a problem  *)
(* and the learner edits the left side.                                    *)
(***************************************************************************)
BoardInit ==
    /\ ScoreInit
    /\ leftSide = emptySide
    /\ rightSide = emptySide
    /\ problem \in Problems
    /\ isLoading = FALSE
    /\ isChecking = FALSE
    /\ modalState = closedModal
    /\ showSolution = FALSE
    /\ pending = NoPending
    /\ lastOp = NoOp

InitTree == BoardInit /\ NormIdle

NextTree ==
    \/ Render
    \/ /\ CountItems(leftSide) < MaxTreeItems
       /\ \E symbol \in TreeSymbols : DropInsert("left", symbol)
    \/ DropReorder("left", "left")
    \/ Remove("left")

SpecTree == InitTree /\ [][NextTree]_vars

(***************************************************************************)
(* SpecSer: the trees built by inserts alone, for the serializer and the   *)
(* completeness check as functions of the tree.                            *)
(***************************************************************************)
NextSer ==
    \/ Render
    \/ /\ CountItems(leftSide) < MaxTreeItems
       /\ \E symbol \in Symbols : DropInsert("left", symbol)

SpecSer == InitTree /\ [][NextSer]_vars

(***************************************************************************)
(* SpecNorm: the answer checker as a function of two formula texts.  The   *)
(* right-hand sides of a reference formula and of an answer are written    *)
(* operand by operand in the serializer's format, the same operand going   *)
(* to both; a factor may go to the front of one product and to the back of *)
(* the other.  checkAnswer is then applied to the two formulas.            *)
(***************************************************************************)
\* the quantities written into the texts
Atoms == {"F", "m"}

\* the characters of s that stand outside every parenthesis
RECURSIVE TopLevel(_, _)
TopLevel(s, depth) ==
    IF Len(s) = 0 THEN ""
    ELSE IF CharAt(s, 1) = "(" THEN TopLevel(SubSeq(s, 2, Len(s)), depth + 1)
    ELSE IF CharAt(s, 1) = ")" THEN TopLevel(SubSeq(s, 2, Len(s)), depth - 1)
    ELSE (IF depth = 0 THEN CharAt(s, 1) ELSE "") \o TopLevel(SubSeq(s, 2, Len(s)), depth)

\* s is a product of factors: no sum and no quotient outside parentheses
IsProductText(s) ==
    ~Includes(TopLevel(s, 0), "+") /\ ~Includes(TopLevel(s, 0), "/")

\* how a Fraction side is written by serializeSide: wrapped when it holds
\* more than one item
FractionSide(s) == IF Includes(s, " ") THEN "( " \o s \o " )" ELSE s

\* the formula the learner's answer is compared with, and the answer
Formula(rhs) == "y = " \o rhs

Unchecked == [checked |-> FALSE]

NormInit ==
    /\ \E x \in Atoms : nref = x /\ nuser = x
    /\ nkind = "same"
    /\ nout = Unchecked

InitNorm == BoardInit /\ NormInit

Building == ~nout.checked

\* the relation of the two texts after the same wrapping has been put around both
Wrapped(kind) == IF kind = "permuted" THEN "permutedInside" ELSE kind

\* the factor x is written on both texts, in front of or behind each
NMul(x, userFront, refFront) ==
    /\ Building
    /\ Len(nuser) + Len(x) + 3 <= MaxTextLen
    /\ nuser' = IF userFront THEN x \o " * " \o nuser ELSE nuser \o " * " \o x
    /\ nref'  = IF refFront THEN x \o " * " \o nref ELSE nref \o " * " \o x
    /\ nkind' = IF userFront = refFront THEN nkind
                ELSE IF IsProductText(nuser) /\ IsProductText(nref) /\ nkind # "other"
                     THEN "permuted" ELSE "other"
    /\ UNCHANGED <<nout, gameVars>>

\* the term x is added to both texts
NAdd(x) ==
    /\ Building
    /\ Len(nuser) + Len(x) + 3 <= MaxTextLen
    /\ nuser' = nuser \o " + " \o x
    /\ nref'  = nref \o " + " \o x
    /\ UNCHANGED <<nkind, nout, gameVars>>

\* both texts become the numerator of a Fraction over x
NOver(x) ==
    /\ Building
    /\ Len(FractionSide(nuser)) + Len(x) + 3 <= MaxTextLen
    /\ nuser' = FractionSide(nuser) \o " / " \o x
    /\ nref'  = FractionSide(nref) \o " / " \o x
    /\ nkind' = IF Includes(nuser, " ") THEN Wrapped(nkind) ELSE nkind
    /\ UNCHANGED <<nout, gameVars>>

\* both texts become the denominator of a Fraction under x
NUnder(x) ==
    /\ Building
    /\ Len(FractionSide(nuser)) + Len(x) + 3 <= MaxTextLen
    /\ nuser' = x \o " / " \o FractionSide(nuser)
    /\ nref'  = x \o " / " \o FractionSide(nref)
    /\ nkind' = IF Includes(nuser, " ") THEN Wrapped(nkind) ELSE nkind
    /\ UNCHANGED <<nout, gameVars>>

\* both texts are put between a '(' and a ')'
NParen ==
    /\ Building
    /\ Len(nuser) + 4 <= MaxTextLen
    /\ nuser' = "( " \o nuser \o " )"
    /\ nref'  = "( " \o nref \o " )"
    /\ nkind' = Wrapped(nkind)
    /\ UNCHANGED <<nout, gameVars>>

\* both texts become the content of a Sqrt
NSqrt ==
    /\ Building
    /\ Len(nuser) + 6 <= MaxTextLen
    /\ nuser' = "sqrt(" \o nuser \o ")"
    /\ nref'  = "sqrt(" \o nref \o ")"
    /\ nkind' = Wrapped(nkind)
    /\ UNCHANGED <<nout, gameVars>>

\* the square exponent is written behind both texts
NSquare ==
    /\ Building
    /\ Len(nuser) + 3 <= MaxTextLen
    /\ nuser' = nuser \o " ^2"
    /\ nref'  = nref \o " ^2"
    /\ nkind' = IF nkind = "same" \/ (EndsWith(nuser, ")") /\ EndsWith(nref, ")"))
                THEN nkind ELSE "other"
    /\ UNCHANGED <<nout, gameVars>>

\* checkAnswer(problem, userAnswer) with the reference as problem.correctAnswer
NCheck ==
    /\ Building
    /\ nout' = [checked    |-> TRUE,
                isCorrect  |-> checkAnswer([correctAnswer |-> Formula(nref)], Formula(nuser)),
                sideUser   |-> normalizeSide(nuser),
                sideRef    |-> normalizeSide(nref),
                normalized |-> normalizeFormula(Formula(nuser)),
                again      |-> normalizeFormula(normalizeFormula(Formula(nuser)))]
    /\ UNCHANGED <<nref, nuser, nkind, gameVars>>

NextNorm ==
    \/ \E x \in Atoms, userFront \in BOOLEAN, refFront \in BOOLEAN : NMul(x, userFront, refFront)
    \/ \E x \in Atoms : NAdd(x)
    \/ \E x \in Atoms : NOver(x)
    \/ \E x \in Atoms : NUnder(x)
    \/ NParen
    \/ NSqrt
    \/ NSquare
    \/ NCheck

SpecNorm == InitNorm /\ [][NextNorm]_vars

(***************************************************************************)
(* SpecScenario: the learner answers the problem 'Fz = m * g' for m: the   *)
(* target goes to the left side, the other quantities and the Fraction to  *)
(* the right side, and the answer is submitted.                            *)
(***************************************************************************)
MaxScenarioItems == 4

\* problem.symbols used on the right side
ScenarioSymbols == {"Fz", "g", "__fraction__"}

NextScenario ==
    \/ Render
    \/ /\ CountItems(leftSide) + CountItems(rightSide) < MaxScenarioItems
       /\ DropInsert("left", "m")
    \/ /\ CountItems(leftSide) + CountItems(rightSide) < MaxScenarioItems
       /\ \E symbol \in ScenarioSymbols : DropInsert("right", symbol)
    \/ Submit
    \/ SubmitDone

SpecScenario == InitTree /\ [][NextScenario]_vars

(***************************************************************************)
(* SpecText: the answer checker on formula texts written character by      *)
(* character.  nuser is the text as written; nref is the same text without *)
(* its whitespace.                                                         *)
(***************************************************************************)
MaxTextChars == 6

TextChars == {"F", "m", "=", "*", " "}

\* the character c is written
TWrite(c) ==
    /\ Building
    /\ Len(nuser) < MaxTextChars
    /\ nuser' = nuser \o c
    /\ nref' = IF c = " " THEN nref ELSE nref \o c
    /\ UNCHANGED <<nkind, nout, gameVars>>

\* checkAnswer(problem, userAnswer) with nref as problem.correctAnswer
TCheck ==
    /\ Building
    /\ nout' = [checked    |-> TRUE,
                isCorrect  |-> checkAnswer([correctAnswer |-> nref], nuser),
                normalized |-> normalizeFormula(nuser)]
    /\ UNCHANGED <<nref, nuser, nkind, gameVars>>

NextText ==
    \/ \E c \in TextChars : TWrite(c)
    \/ TCheck

SpecText == InitTree /\ [][NextText]_vars

(***************************************************************************)
(* SpecSum: the answer checker on a sum written in its two orders.  A term *)
(* is written in the serializer's format without a product in it, then the *)
(* answer adds a quantity behind it and the reference in front of it.      *)
(***************************************************************************)
\* the sum of the term written so far and x, in the two orders, is checked
NSwapCheck(x) ==
    /\ Building
    /\ nkind = "same"
    /\ Len(nuser) + Len(x) + 3 <= MaxTextLen
    /\ nuser' = nuser \o " + " \o x
    /\ nref'  = x \o " + " \o nref
    /\ nkind' = "swapped"
    /\ nout' = [checked    |-> TRUE,
                isCorrect  |-> checkAnswer([correctAnswer |-> Formula(x \o " + " \o nref)],
                                           Formula(nuser \o " + " \o x)),
                term       |-> nuser,
                added      |-> x,
                sideUser   |-> normalizeSide(nuser \o " + " \o x),
                sideRef    |-> normalizeSide(x \o " + " \o nref)]
    /\ UNCHANGED gameVars

NextSum ==
    \/ \E x \in Atoms : NOver(x)
    \/ \E x \in Atoms : NUnder(x)
    \/ NParen
    \/ NSqrt
    \/ NSquare
    \/ \E x \in Atoms : NSwapCheck(x)

SpecSum == InitNorm /\ [][NextSum]_vars

(***************************************************************************)
(* SpecEngine: the insert and the remove recipe as functions of the tree,  *)
(* the path and the index.  The paths are those of the tree and paths the  *)
(* tree does not have: into a slot an item lacks, onto an item, behind the *)
(* last item, the empty path.  The indexes go one behind the end.          *)
(***************************************************************************)
MaxEngineItems == 2

SlotNames == {"content", "numerator", "denominator"}

\* the item paths of the tree and, for every container, the index behind its end
ProbeItemPaths(side) ==
    ItemPaths(side, <<"items">>) \cup
    { zone \o <<Len(getNested(JsValue("side", side), zone).val)>>
      : zone \in DropZonePaths(side, <<"items">>) }

\* the container paths handed to the recipes
ProbePaths(side) ==
    {<<>>, <<"items">>} \cup ProbeItemPaths(side) \cup
    { p \o <<slot, "items">> : p \in ProbeItemPaths(side), slot \in SlotNames }

\* the indexes handed to the recipes for the container path
ProbeIndexes(side, path) ==
    LET container == getNested(JsValue("side", side), path)
    IN  IF IsArray(container) THEN 0..(Len(container.val) + 1) ELSE 0..1

\* the insert recipe of handleDrop is run on the tree
EngineInsert(symbol) ==
    /\ BoardShown
    /\ \E path \in ProbePaths(leftSide) :
         \E newIndex \in ProbeIndexes(leftSide, path) :
            /\ leftSide' = handleDropInsert(leftSide, path, newIndex, NewItem(FreshId, symbol))
            /\ lastOp' = Op("insertAt", "left", <<>>, path, newIndex)
    /\ UNCHANGED <<rightSide, problem, isLoading, isChecking, modalState, showSolution,
                   pending, normVars, scoreVars>>

\* the recipe of handleRemove is run on the tree
EngineRemove ==
    /\ BoardShown
    /\ \E path \in ProbePaths(leftSide) :
         \E index \in ProbeIndexes(leftSide, path) :
            /\ leftSide' = handleRemove(leftSide, path \o <<index>>)
            /\ lastOp' = Op("removeAt", "left", <<>>, path, index)
    /\ UNCHANGED <<rightSide, problem, isLoading, isChecking, modalState, showSolution,
                   pending, normVars, scoreVars>>

NextEngine ==
    \/ Render
    \/ /\ CountItems(leftSide) < MaxEngineItems
       /\ \E symbol \in TreeSymbols : EngineInsert(symbol)
    \/ EngineRemove

SpecEngine == InitTree /\ [][NextEngine]_vars

(***************************************************************************)
(* SpecInsert: the trees built by the insert recipe alone, run on the      *)
(* paths and indexes of SpecEngine.                                        *)
(***************************************************************************)
MaxInsertItems == 3

NextInsert ==
    \/ Render
    \/ /\ CountItems(leftSide) < MaxInsertItems
       /\ \E symbol \in TreeSymbols : EngineInsert(symbol)

SpecInsert == InitTree /\ [][NextInsert]_vars

(***************************************************************************)
(* SpecParens and SpecSqrt: normalizeSide as a function of one text.  The  *)
(* text is written piece by piece, with nothing that keeps it well formed, *)
(* and normalizeSide is applied to it.  SpecParens writes single           *)
(* characters, the parentheses among them; SpecSqrt writes whole operands, *)
(* a sqrt term and a parenthesised group among them.                       *)
(***************************************************************************)
MaxParenChars == 4
MaxSqrtLen == 11

ParenChars == {"F", "m", "*", "/", "(", ")", " "}

SqrtPieces == {"sqrt(F)", "(m)", "*", "/"}

\* the piece t is written behind the text
SWrite(t) ==
    /\ Building
    /\ nuser' = nuser \o t
    /\ UNCHANGED <<nref, nkind, nout, gameVars>>

\* normalizeSide(side) with the text as side
SCheck ==
    /\ Building
    /\ nout' = [checked |-> TRUE, sideUser |-> normalizeSide(nuser)]
    /\ UNCHANGED <<nref, nuser, nkind, gameVars>>

NextParens ==
    \/ \E c \in ParenChars : Len(nuser) < MaxParenChars /\ SWrite(c)
    \/ SCheck

SpecParens == InitTree /\ [][NextParens]_vars

NextSqrt ==
    \/ \E t \in SqrtPieces : Len(nuser) + Len(t) <= MaxSqrtLen /\ SWrite(t)
    \/ SCheck

SpecSqrt == InitTree /\ [][NextSqrt]_vars

(***************************************************************************)
(* SpecFrac: the trees built by inserts of quantities and Fractions, for   *)
(* the text the serializer gives to Fractions inside Fractions.            *)
(***************************************************************************)
MaxFracItems == 5
MaxFractions == 2

\* the Fractions of the tree, at all depths
RECURSIVE Fractions(_)
Fractions(side) ==
    UNION { (IF side.items[k].type = "fraction" THEN {side.items[k].id} ELSE {})
            \cup UNION { Fractions(side.items[k][Slots(side.items[k])[s]])
                         : s \in 1..Len(Slots(side.items[k])) }
          : k \in 1..Len(side.items) }

NextFrac ==
    \/ Render
    \/ /\ CountItems(leftSide) < MaxFracItems
       /\ DropInsert("left", "m")
    \/ /\ CountItems(leftSide) < MaxFracItems
       /\ Cardinality(Fractions(leftSide)) < MaxFractions
       /\ DropInsert("left", "__fraction__")

SpecFrac == InitTree /\ [][NextFrac]_vars

(***************************************************************************)
(* SpecTable: every problem of the built-in answer table is answered with  *)
(* the tree that mirrors its reference answer.  The problem is any entry   *)
(* of PRECOMPUTED_ANSWERS; items are dropped as long as the sides stay     *)
(* part of the mirror tree; the answer is submitted.                       *)
(***************************************************************************)
Entry(formula, target, answer) ==
    [originalFormula |-> formula, targetVariable |-> target, correctAnswer |-> answer]

\* PRECOMPUTED_ANSWERS, one problem for each (formula, target)
AnswerTable ==
    { Entry("θ = s / r", "s", "s = θ * r"),
      Entry("θ = s / r", "r", "r = s / θ"),
      Entry("a = r * α", "r", "r = a / α"),
      Entry("a = r * α", "α", "α = a / r"),
      Entry("Fz = m * g", "m", "m = Fz / g"),
      Entry("Fz = m * g", "g", "g = Fz / m"),
      Entry("Epot = m*g*h", "m", "m = Epot / (g * h)"),
      Entry("Epot = m*g*h", "g", "g = Epot / (m * h)"),
      Entry("Epot = m*g*h", "h", "h = Epot / (m * g)"),
      Entry("p = F / A", "F", "F = p * A"),
      Entry("p = F / A", "A", "A = F / p"),
      Entry("phydro = ρ*g*h", "ρ", "ρ = phydro / (g * h)"),
      Entry("phydro = ρ*g*h", "g", "g = phydro / (ρ * h)"),
      Entry("phydro = ρ*g*h", "h", "h = phydro / (ρ * g)"),
      Entry("R = U / I", "U", "U = R * I"),
      Entry("R = U / I", "I", "I = U / R"),
      Entry("Q = m*c*ΔT", "m", "m = Q / (c * ΔT)"),
      Entry("Q = m*c*ΔT", "c", "c = Q / (m * ΔT)"),
      Entry("Q = m*c*ΔT", "ΔT", "ΔT = Q / (m * c)"),
      Entry("E = m * c^2", "m", "m = E / c^2"),
      Entry("E = m * c^2", "c", "c = sqrt(E / m)"),
      Entry("v = Δx / Δt", "Δx", "Δx = v * Δt"),
      Entry("v = Δx / Δt", "Δt", "Δt = Δx / v"),
      Entry("ρ = m / v", "m", "m = ρ * v"),
      Entry("ρ = m / v", "v", "v = m / ρ") }

\* the text between the '(' and the ')' of a parenthesised text
Unwrap(text) ==
    LET t == Trim(text)
    IN  IF StartsWith(t, "(") /\ EndsWith(t, ")") THEN SubSeq(t, 2, Len(t) - 1) ELSE t

\* the Leaves for the tokens of a text without '/' and sqrt: one Leaf for a
\* quantity or a '*', the square trigger for a '^2'
RECURSIVE LeafItems(_)
LeafItems(tokens) ==
    IF Len(tokens) = 0 THEN <<>>
    ELSE LET tok == Head(tokens)
         IN  (IF tok = "" THEN <<>>
              ELSE IF EndsWith(tok, "^2")
              THEN (IF Len(tok) > 2
                    THEN <<DroppedSymbol(0, SubSeq(tok, 1, Len(tok) - 2))>> ELSE <<>>)
                   \o <<DroppedSymbol(0, "__square__")>>
              ELSE <<DroppedSymbol(0, tok)>>)
             \o LeafItems(Tail(tokens))

\* the items that mirror a reference text: a Sqrt for 'sqrt(...)', a
\* Fraction for a '/' with its numerator and its denominator, Leaves for
\* the rest
RECURSIVE MirrorItems(_)
MirrorItems(text) ==
    LET t == Trim(text)
        RECURSIVE Slash(_, _)
        Slash(i, depth) ==
            IF i > Len(t) THEN 0
            ELSE IF CharAt(t, i) = "(" THEN Slash(i + 1, depth + 1)
            ELSE IF CharAt(t, i) = ")" THEN Slash(i + 1, depth - 1)
            ELSE IF CharAt(t, i) = "/" /\ depth = 0 THEN i
            ELSE Slash(i + 1, depth)
        at == Slash(1, 0)
    IN  IF StartsWith(t, "sqrt(") /\ EndsWith(t, ")")
        THEN <<SqrtNode(0, [items |-> MirrorItems(SubSeq(t, 6, Len(t) - 1))])>>
        ELSE IF at # 0
        THEN <<FractionNode(0, [items |-> MirrorItems(Unwrap(SubSeq(t, 1, at - 1)))],
                               [items |-> MirrorItems(Unwrap(SubSeq(t, at + 1, Len(t))))])>>
        ELSE LeafItems(Split(t, " "))

\* the two sides of the tree that mirrors the reference answer of problem p
MirrorLeft(p) == [items |-> MirrorItems(Split(p.correctAnswer, "=")[1])]

MirrorRight(p) == [items |-> MirrorItems(Split(p.correctAnswer, "=")[2])]

\* side a is part of side b: b with items left out at the ends of containers
RECURSIVE PartOf(_, _)
PartOf(a, b) ==
    /\ Len(a.items) <= Len(b.items)
    /\ \A k \in 1..Len(a.items) :
          /\ a.items[k].type = b.items[k].type
          /\ IF a.items[k].type = "symbol" THEN a.items[k].content = b.items[k].content
             ELSE IF a.items[k].type = "sqrt" THEN PartOf(a.items[k].content, b.items[k].content)
             ELSE /\ PartOf(a.items[k].numerator, b.items[k].numerator)
                  /\ PartOf(a.items[k].denominator, b.items[k].denominator)

\* the legend of problem p: the tokens of its mirror tree and the two
\* structure triggers
RECURSIVE Tokens(_)
Tokens(side) ==
    UNION { IF side.items[k].type = "symbol" THEN {side.items[k].content}
            ELSE UNION { Tokens(side.items[k][Slots(side.items[k])[s]])
                         : s \in 1..Len(Slots(side.items[k])) }
          : k \in 1..Len(side.items) }

TableSymbols(p) ==
    {"__sqrt__", "__fraction__"} \cup Tokens(MirrorLeft(p)) \cup Tokens(MirrorRight(p))

TableInit ==
    /\ ScoreInit
    /\ leftSide = emptySide
    /\ rightSide = emptySide
    /\ problem \in AnswerTable
    /\ isLoading = FALSE
    /\ isChecking = FALSE
    /\ modalState = closedModal
    /\ showSolution = FALSE
    /\ pending = NoPending
    /\ lastOp = NoOp

InitTable == TableInit /\ NormIdle

NextTable ==
    \/ Render
    \/ \E symbol \in TableSymbols(problem) :
          DropInsert("left", symbol) /\ PartOf(leftSide', MirrorLeft(problem))
    \/ \E symbol \in TableSymbols(problem) :
          DropInsert("right", symbol) /\ PartOf(rightSide', MirrorRight(problem))
    \/ Submit
    \/ SubmitDone

SpecTable == InitTable /\ [][NextTable]_vars

(***************************************************************************)
(* SpecPlay: games played round after round, in either mode.  The problem  *)
(* is 'Fz = m * g' for m; the learner builds the mirror tree of one of the *)
(* two answers of that formula, the right one or the one for g, submits,   *)
(* retries, gives up or goes on to the next problem, resets the sides, or  *)
(* goes back to the menu and starts a new game.                            *)
(***************************************************************************)
MaxStreak == 3

\* the answers the learner builds
PlayAnswers == {p \in AnswerTable : p.originalFormula = "Fz = m * g"}

\* the legend of the problem
PlaySymbols == UNION {TableSymbols(p) : p \in PlayAnswers}

\* their mirror trees, left and right side
PlayTrees == {<<MirrorLeft(p), MirrorRight(p)>> : p \in PlayAnswers}

\* a drop that keeps the two sides part of the mirror tree of one answer
PlayDrop(which, symbol) ==
    /\ DropInsert(which, symbol)
    /\ \E t \in PlayTrees : PartOf(leftSide', t[1]) /\ PartOf(rightSide', t[2])

\* handleBackToMenuClick, then App.startGame(mode): GameScreen is mounted
\* anew, the high score is read back from localStorage
StartGame(mode) ==
    /\ Rendered
    /\ ~pending.active
    /\ gameMode' = mode
    /\ quarks' = 0
    /\ streak' = 0
    /\ leftSide' = emptySide
    /\ rightSide' = emptySide
    /\ problem' = NoProblem
    /\ isLoading' = TRUE
    /\ isChecking' = FALSE
    /\ modalState' = closedModal
    /\ showSolution' = FALSE
    /\ lastOp' = Op("start", "left", <<>>, <<>>, 0)
    /\ UNCHANGED <<pending, highScore, normVars>>

PlayInit ==
    /\ gameMode \in GameModes
    /\ quarks = 0
    /\ streak = 0
    /\ highScore \in 0..(MaxStreak - 2)
    /\ leftSide = emptySide
    /\ rightSide = emptySide
    /\ problem = NoProblem
    /\ isLoading = TRUE
    /\ isChecking = FALSE
    /\ modalState = closedModal
    /\ showSolution = FALSE
    /\ pending = NoPending
    /\ lastOp = NoOp

InitPlay == PlayInit /\ NormIdle

NextPlay ==
    \/ Render
    \/ FetchDone
    \/ \E which \in Sides, symbol \in PlaySymbols : PlayDrop(which, symbol)
    \/ Reset
    \/ streak < MaxStreak /\ Submit
    \/ streak < MaxStreak /\ SubmitFailing
    \/ SubmitDone
    \/ Retry
    \/ GiveUp
    \/ Proceed
    \/ \E mode \in GameModes : StartGame(mode)

SpecPlay == InitPlay /\ [][NextPlay]_vars

(***************************************************************************)
(* Vocabulary of the properties                                            *)
(***************************************************************************)
\* the item sequences of all containers of a tree: the root and every slot
RECURSIVE Containers(_)
Containers(side) ==
    {side.items} \cup
    UNION { UNION { Containers(side.items[k][Slots(side.items[k])[s]])
                    : s \in 1..Len(Slots(side.items[k])) }
          : k \in 1..Len(side.items) }

HasEmptyContainer(side) == \E c \in Containers(side) : Len(c) = 0

\* every container as <<owner id, slot, ids of its items in order>>; the root
\* is owned by 0
RECURSIVE ContainerIds(_, _, _)
ContainerIds(side, owner, slot) ==
    {<<owner, slot, [k \in 1..Len(side.items) |-> side.items[k].id]>>} \cup
    UNION { UNION { ContainerIds(side.items[k][Slots(side.items[k])[s]],
                                 side.items[k].id, Slots(side.items[k])[s])
                    : s \in 1..Len(Slots(side.items[k])) }
          : k \in 1..Len(side.items) }

\* every item as <<id, type, token>>
RECURSIVE Labels(_)
Labels(side) ==
    UNION { {<<side.items[k].id, side.items[k].type,
               IF side.items[k].type = "symbol" THEN side.items[k].content ELSE "">>}
            \cup UNION { Labels(side.items[k][Slots(side.items[k])[s]])
                         : s \in 1..Len(Slots(side.items[k])) }
          : k \in 1..Len(side.items) }

\* the identifiers of a sequence of items
IdSeq(items) == [k \in 1..Len(items) |-> items[k].id]

\* a reorder drop inside one tree, both of whose paths the tree it started
\* from had
ValidMove ==
    /\ lastOp.kind = "reorder"
    /\ lastOp.side = "left"
    /\ lastOp.sourcePath \in ItemPaths(lastOp.left, <<"items">>)
    /\ lastOp.path \in DropZonePaths(lastOp.left, <<"items">>)

\* a reorder drop whose source item lies in the container it is dropped on
SameContainerMove ==
    /\ ValidMove
    /\ SubSeq(lastOp.sourcePath, 1, Len(lastOp.sourcePath) - 1) = lastOp.path

(***************************************************************************)
(* C1  A move with valid source and destination paths conserves the items: *)
(* the identifiers in the tree after it are those before it, none lost and *)
(* none duplicated; a move that is not carried out leaves the tree as it   *)
(* was.                                                                    *)
(***************************************************************************)
C1_MoveConservesItems ==
    ValidMove =>
        \/ /\ IdsOf(leftSide) = IdsOf(lastOp.left)
           /\ CountItems(leftSide) = CountItems(lastOp.left)
        \/ leftSide = lastOp.left

(***************************************************************************)
(* C2  Move ordering law: a move of item i of a container to index j of    *)
(* the same container gives the container with item i removed and then     *)
(* put at index j (clamped) of the shortened sequence; every other         *)
(* container and every item is as before.                                  *)
(***************************************************************************)
C2_MoveOrderingLaw ==
    SameContainerMove =>
        LET before  == getNested(JsValue("side", lastOp.left), lastOp.path).val
            i       == lastOp.sourcePath[Len(lastOp.sourcePath)] + 1
            n       == Len(before)
            short   == [k \in 1..(n - 1) |-> IF k < i THEN before[k] ELSE before[k + 1]]
            j       == IF lastOp.index > n - 1 THEN n - 1 ELSE lastOp.index
            expect  == SubSeq(short, 1, j) \o <<before[i]>> \o SubSeq(short, j + 1, n - 1)
            changed == {c \in ContainerIds(lastOp.left, 0, "items") : c[3] = IdSeq(before)}
        IN  /\ Cardinality(changed) = 1
            /\ ContainerIds(leftSide, 0, "items") =
                  (ContainerIds(lastOp.left, 0, "items") \ changed)
                  \cup {<<c[1], c[2], IdSeq(expect)>> : c \in changed}
            /\ Labels(leftSide) = Labels(lastOp.left)

\* A is moved to index 2 of [A, B, C] and the container reads [B, C, A]
C2_Witness ==
    /\ SameContainerMove
    /\ lastOp.path = <<"items">>
    /\ lastOp.sourcePath = <<"items", 0>>
    /\ lastOp.index = 2
    /\ Len(lastOp.left.items) = 3
    /\ IdSeq(leftSide.items) = <<lastOp.left.items[2].id, lastOp.left.items[3].id,
                                 lastOp.left.items[1].id>>

(***************************************************************************)
(* C3  A tree built by inserts is complete exactly when none of its        *)
(* containers, the root or a slot at any depth, is empty; a Fraction with  *)
(* an empty denominator makes its side incomplete whatever else it holds.  *)
(***************************************************************************)
C3_CompleteIffNoEmptyContainer ==
    /\ isSideSubmittable(leftSide) <=> ~HasEmptyContainer(leftSide)
    /\ \A c \in Containers(leftSide) :
          isSideSubmittable([items |-> c]) <=> ~HasEmptyContainer([items |-> c])

\* a side with a Fraction whose numerator is filled and whose denominator is
\* empty, next to another item, is not complete
C3_Witness ==
    /\ lastOp.kind = "insert"
    /\ Len(leftSide.items) > 1
    /\ \E k \in 1..Len(leftSide.items) :
          /\ leftSide.items[k].type = "fraction"
          /\ Len(leftSide.items[k].numerator.items) > 0
          /\ Len(leftSide.items[k].denominator.items) = 0
    /\ ~isSideSubmittable(leftSide)

(***************************************************************************)
(* C4  Submit can be started only when the left and the right side are     *)
(* both complete: the button is enabled, and handleSubmit has started,     *)
(* only with no empty container on either side.                            *)
(***************************************************************************)
C4_SubmitOnlyWhenComplete ==
    /\ (BoardShown /\ SubmitEnabled) =>
          ~HasEmptyContainer(leftSide) /\ ~HasEmptyContainer(rightSide)
    /\ lastOp.kind = "submit" =>
          ~HasEmptyContainer(leftSide) /\ ~HasEmptyContainer(rightSide)

\* a submission has started
C4_Witness ==
    /\ lastOp.kind = "submit"
    /\ isChecking
    /\ pending.active

(***************************************************************************)
(* Arithmetic meaning of a right-hand side text without square roots:      *)
(* a fraction <<numerator, denominator>> for every assignment.             *)
(***************************************************************************)
Assignments == { [x \in Atoms |-> IF x = "F" THEN 2 ELSE 3],
                 [x \in Atoms |-> IF x = "F" THEN 5 ELSE 2] }

RatAdd(p, q) == <<p[1] * q[2] + q[1] * p[2], p[2] * q[2]>>

RatMul(p, q) == <<p[1] * q[1], p[2] * q[2]>>

RatDiv(p, q) == <<p[1] * q[2], p[2] * q[1]>>

RatEq(p, q) == p[1] * q[2] = q[1] * p[2]

\* the last position of s outside every parenthesis that holds one of chars;
\* 0 when there is none
LastTop(s, chars) ==
    LET depth(i) == Cardinality({k \in 1..(i - 1) : CharAt(s, k) = "("})
                    - Cardinality({k \in 1..(i - 1) : CharAt(s, k) = ")"})
        hits == {i \in 1..Len(s) : CharAt(s, i) \in chars /\ depth(i) = 0}
    IN  IF hits = {} THEN 0 ELSE CHOOSE i \in hits : \A h \in hits : h <= i

\* s has no whitespace; * and / bind tighter than +, ^2 tighter still
RECURSIVE Value(_, _)
Value(s, env) ==
    LET p == LastTop(s, {"+"})
        q == LastTop(s, {"*", "/"})
    IN  IF p # 0
        THEN RatAdd(Value(SubSeq(s, 1, p - 1), env), Value(SubSeq(s, p + 1, Len(s)), env))
        ELSE IF q # 0 /\ CharAt(s, q) = "*"
        THEN RatMul(Value(SubSeq(s, 1, q - 1), env), Value(SubSeq(s, q + 1, Len(s)), env))
        ELSE IF q # 0
        THEN RatDiv(Value(SubSeq(s, 1, q - 1), env), Value(SubSeq(s, q + 1, Len(s)), env))
        ELSE IF EndsWith(s, "^2")
        THEN RatMul(Value(SubSeq(s, 1, Len(s) - 2), env), Value(SubSeq(s, 1, Len(s) - 2), env))
        ELSE IF StartsWith(s, "(")
        THEN Value(SubSeq(s, 2, Len(s) - 1), env)
        ELSE <<env[s], 1>>

NoSqrt(s) == ~Includes(s, "q")

(***************************************************************************)
(* C5  checkAnswer is sound: two formulas it judges correct have the same  *)
(* left-hand side and right-hand sides of the same value under every       *)
(* assignment of the quantities.  (Stated for texts without square roots,  *)
(* whose value is a fraction.)                                             *)
(***************************************************************************)
C5_CheckIsSound ==
    (nout.checked /\ nout.isCorrect /\ NoSqrt(nuser) /\ NoSqrt(nref)) =>
        \A env \in Assignments :
            RatEq(Value(StripWhitespace(nuser), env), Value(StripWhitespace(nref), env))

(***************************************************************************)
(* C6  Normalization is idempotent: normalizing a normalized formula       *)
(* changes nothing.                                                        *)
(***************************************************************************)
C6_NormalizeIdempotent ==
    nout.checked => nout.again = nout.normalized

(***************************************************************************)
(* C7  Products of tokens are canonicalized: whatever the order of the     *)
(* factors, normalizeSide gives the factors in ascending code unit order   *)
(* joined by '*', so two orderings of one list normalize to one string.    *)
(***************************************************************************)
\* s is tokens joined by '*'
IsTokenProduct(s) ==
    \A i \in 1..Len(s) : CharAt(s, i) \notin {"(", ")", "+", "/", "^"}

\* how often the string f occurs in the array
Occurrences(arr, f) == Cardinality({k \in 1..Len(arr) : arr[k] = f})

C8_PermutedInsideIsCorrect ==
    (nout.checked /\ nkind = "permutedInside") => nout.isCorrect

(***************************************************************************)
(* C9  A Fraction is written '<num> / <den>', a side in '( ' ' )' exactly  *)
(* when it holds more than one item, a side of one item as it is and an    *)
(* empty side as one space, wherever the Fraction stands in its container. *)
(***************************************************************************)
\* the text of a Fraction side
SideText(side) ==
    IF Len(side.items) > 1 THEN "( " \o serializeSide(side) \o " )"
    ELSE IF Len(side.items) = 1 THEN serializeSide(side)
    ELSE " "

\* the text of one item
ItemText(item) ==
    IF item.type = "fraction"
    THEN SideText(item.numerator) \o " / " \o SideText(item.denominator)
    ELSE serializeSide([items |-> <<item>>])

C9_FractionText ==
    \A c \in Containers(leftSide) :
        (\E k \in 1..Len(c) : c[k].type = "fraction") =>
            serializeSide([items |-> c]) = Join([k \in 1..Len(c) |-> ItemText(c[k])], " ")

(***************************************************************************)
(* C10  serializeSide gives a text for every tree: the empty text for an   *)
(* empty container, the token for a Leaf ('^2' for the square trigger),    *)
(* 'sqrt(' content ')' for a Sqrt with one space for an empty content, and *)
(* the items of a container in their order, joined by single spaces.       *)
(***************************************************************************)
\* the text of a Leaf or a Sqrt
PlainText(item) ==
    IF item.type = "symbol"
    THEN IF item.content = "__square__" THEN "^2" ELSE item.content
    ELSE LET content == serializeSide(item.content)
         IN  "sqrt(" \o (IF content = "" THEN " " ELSE content) \o ")"

RECURSIVE Concat(_)
Concat(parts) == IF Len(parts) = 0 THEN "" ELSE Head(parts) \o Concat(Tail(parts))

C10_SerializeInOrder ==
    \A c \in Containers(leftSide) :
        /\ Len(c) = 0 => serializeSide([items |-> c]) = ""
        /\ (\A k \in 1..Len(c) : c[k].type \in {"symbol", "sqrt"}) =>
              serializeSide([items |-> c]) = Join([k \in 1..Len(c) |-> PlainText(c[k])], " ")
        /\ StripWhitespace(serializeSide([items |-> c])) =
              Concat([k \in 1..Len(c) |->
                         StripWhitespace(serializeSide([items |-> <<c[k]>>]))])

\* a quantity, the square trigger and an empty square root, in this order
C10_Witness ==
    /\ lastOp.kind = "insert"
    /\ Len(leftSide.items) = 3
    /\ leftSide.items[1].type = "symbol" /\ leftSide.items[1].content = "m"
    /\ leftSide.items[2].type = "symbol" /\ leftSide.items[2].content = "__square__"
    /\ leftSide.items[3].type = "sqrt" /\ Len(leftSide.items[3].content.items) = 0
    /\ serializeSide(leftSide) = "m ^2 sqrt( )"

(***************************************************************************)
(* C11  For the problem 'Fz = m * g' with target m: once the drops have    *)
(* built the left side [m] and the right side Fz over g, both sides are    *)
(* complete, the answer text is exactly 'm = Fz / g' and the check against *)
(* the correct answer gives isCorrect = true.                              *)
(***************************************************************************)
IsLeaf(item, token) == item.type = "symbol" /\ item.content = token

\* left side [m], right side one Fraction with numerator [Fz] and denominator [g]
ScenarioBuilt ==
    /\ problem.correctAnswer = "m = Fz / g"
    /\ Len(leftSide.items) = 1 /\ IsLeaf(leftSide.items[1], "m")
    /\ Len(rightSide.items) = 1 /\ rightSide.items[1].type = "fraction"
    /\ Len(rightSide.items[1].numerator.items) = 1
    /\ IsLeaf(rightSide.items[1].numerator.items[1], "Fz")
    /\ Len(rightSide.items[1].denominator.items) = 1
    /\ IsLeaf(rightSide.items[1].denominator.items[1], "g")

\* the userAnswer of handleSubmit
userAnswer == serializeSide(leftSide) \o " = " \o serializeSide(rightSide)

C11_ScenarioIsCorrect ==
    ScenarioBuilt =>
        /\ canSubmit
        /\ userAnswer = "m = Fz / g"
        /\ checkAnswer(problem, userAnswer)
        /\ pending.active => pending.isCorrect
        /\ modalState.isOpen => modalState.isCorrect

\* the answer has been submitted and the verdict is shown
C11_Witness ==
    /\ ScenarioBuilt
    /\ lastOp.kind = "verdict"
    /\ modalState.isOpen /\ modalState.isCorrect

(***************************************************************************)
(* C12  The verdict does not depend on whitespace: two formula texts with  *)
(* exactly one '=' each that are the same once all whitespace is removed   *)
(* are judged correct.                                                     *)
(***************************************************************************)
\* how many '=' the text holds
EqualsSigns(s) == Cardinality({i \in 1..Len(s) : CharAt(s, i) = "="})

C12_WhitespaceInsensitive ==
    (/\ nout.checked
     /\ EqualsSigns(nuser) = 1 /\ EqualsSigns(nref) = 1
     /\ StripWhitespace(nuser) = StripWhitespace(nref)) => nout.isCorrect

(***************************************************************************)
(* C14  normalizeFormula of a text with exactly one '=' is the text before *)
(* the '=' as it stands, '=', and normalizeSide of the text after it; of a *)
(* text with no or with several '=' it is the text without its whitespace. *)
(***************************************************************************)
\* the position of the first '=' of a text that holds one
EqualsAt(s) == CHOOSE i \in 1..Len(s) : CharAt(s, i) = "="

BeforeEquals(s) == SubSeq(s, 1, EqualsAt(s) - 1)

AfterEquals(s) == SubSeq(s, EqualsAt(s) + 1, Len(s))

C14_LhsUntouched ==
    nout.checked =>
        IF EqualsSigns(nuser) = 1
        THEN nout.normalized = BeforeEquals(nuser) \o "=" \o normalizeSide(AfterEquals(nuser))
        ELSE nout.normalized = StripWhitespace(nuser)

\* C14 as amended: the text before the '=' loses the whitespace at its two
\* ends and is otherwise as it stands
C14_LhsTrimmed ==
    nout.checked =>
        IF EqualsSigns(nuser) = 1
        THEN nout.normalized =
                Trim(BeforeEquals(nuser)) \o "=" \o normalizeSide(AfterEquals(nuser))
        ELSE nout.normalized = StripWhitespace(nuser)

\* one '=', whitespace at an end of the left-hand side and inside it, and a
\* right-hand side that normalizeSide changes
C14_Witness ==
    /\ nout.checked
    /\ EqualsSigns(nuser) = 1
    /\ BeforeEquals(nuser) # Trim(BeforeEquals(nuser))
    /\ Trim(BeforeEquals(nuser)) # StripWhitespace(BeforeEquals(nuser))
    /\ nuser = " F m=F"
    /\ nout.normalized = "F m=F"

MalformedPath ==
    /\ lastOp.kind \in {"insertAt", "removeAt"}
    /\ lastOp.path \notin DropZonePaths(lastOp.left, <<"items">>)

\* the remove recipe was run on a container with an index behind its end
IndexOutOfBounds ==
    /\ lastOp.kind = "removeAt"
    /\ lastOp.path \in DropZonePaths(lastOp.left, <<"items">>)
    /\ lastOp.index >= Len(getNested(JsValue("side", lastOp.left), lastOp.path).val)

StructuralError == MalformedPath \/ IndexOutOfBounds

\* everything the screen holds is as it was before the mutation
SilentNoOp ==
    /\ leftSide = lastOp.left
    /\ rightSide = lastOp.right
    /\ ~modalState.isOpen /\ ~isLoading /\ ~isChecking

C15_ErrorIsReported ==
    StructuralError => ~SilentNoOp

(***************************************************************************)
(* C16  An insert on a malformed container path, and a remove on a         *)
(* malformed container path or with an index behind the end, leave the     *)
(* tree as it was: nothing is inserted, removed or reordered.              *)
(***************************************************************************)
C16_ErrorKeepsTree ==
    StructuralError => leftSide = lastOp.left

\* a remove behind the end of the content of a Sqrt that holds an item, and
\* an insert into the numerator of a Leaf
C16_Witness ==
    /\ StructuralError
    /\ CountItems(lastOp.left) >= 2
    /\ \/ /\ IndexOutOfBounds
          /\ Len(lastOp.path) = 4 /\ lastOp.index = 1
       \/ /\ lastOp.kind = "insertAt"
          /\ Len(lastOp.path) = 4 /\ lastOp.path[3] = "numerator"
          /\ lastOp.left.items[lastOp.path[2] + 1].type = "symbol"

(***************************************************************************)
(* C17  An insert on a valid container path puts the new item at the index *)
(* given, or behind the last item when the index is larger, keeps the      *)
(* order of the items already there and leaves every other container as   *)
(* it was: an insert into a numerator never changes the denominator, nor   *)
(* the other way round.                                                    *)
(***************************************************************************)
\* the insert recipe was run on a container of the tree
ValidInsert ==
    /\ lastOp.kind = "insertAt"
    /\ lastOp.path \in DropZonePaths(lastOp.left, <<"items">>)

\* the items in the container at `path` of the tree
ItemsAt(side, path) == getNested(JsValue("side", side), path).val

\* the container paths that lead into the slot `slot` of the Fraction whose
\* other slot `path` addresses
SiblingPath(path, slot) == SubSeq(path, 1, Len(path) - 2) \o <<slot, "items">>

C17_InsertAtIndex ==
    ValidInsert =>
        LET before == ItemsAt(lastOp.left, lastOp.path)
            after  == ItemsAt(leftSide, lastOp.path)
            at     == IF lastOp.index > Len(before) THEN Len(before) ELSE lastOp.index
            new    == IdsOf(leftSide) \ IdsOf(lastOp.left)
            \* the item that owns the container addressed, 0 for the root
            owner  == IF Len(lastOp.path) = 1 THEN 0
                      ELSE getNested(JsValue("side", lastOp.left),
                                     SubSeq(lastOp.path, 1, Len(lastOp.path) - 2)).val.id
            slot   == IF Len(lastOp.path) = 1 THEN "items"
                      ELSE lastOp.path[Len(lastOp.path) - 1]
        IN  /\ Cardinality(new) = 1
            /\ Len(after) = Len(before) + 1
            /\ after[at + 1].id \in new
            /\ \A k \in 1..Len(before) : after[IF k <= at THEN k ELSE k + 1] = before[k]
            /\ {c \in ContainerIds(leftSide, 0, "items") : c[1] \notin new} =
                  {c \in ContainerIds(lastOp.left, 0, "items") : ~(c[1] = owner /\ c[2] = slot)}
                  \cup {<<owner, slot, IdSeq(after)>>}
            /\ Labels(lastOp.left) \subseteq Labels(leftSide)
            /\ CountItems(leftSide) = CountItems(lastOp.left) + 1
            /\ (Len(lastOp.path) > 1 /\ lastOp.path[Len(lastOp.path) - 1] = "numerator")
                  => ItemsAt(leftSide, SiblingPath(lastOp.path, "denominator"))
                       = ItemsAt(lastOp.left, SiblingPath(lastOp.path, "denominator"))
            /\ (Len(lastOp.path) > 1 /\ lastOp.path[Len(lastOp.path) - 1] = "denominator")
                  => ItemsAt(leftSide, SiblingPath(lastOp.path, "numerator"))
                       = ItemsAt(lastOp.left, SiblingPath(lastOp.path, "numerator"))

\* an insert with an index behind the end into a numerator that holds an
\* item, the denominator being empty
C17_Witness ==
    /\ ValidInsert
    /\ Len(lastOp.path) = 4 /\ lastOp.path[3] = "numerator"
    /\ Len(ItemsAt(lastOp.left, lastOp.path)) = 1
    /\ lastOp.index = 2
    /\ Len(ItemsAt(leftSide, lastOp.path)) = 2
    /\ ItemsAt(leftSide, lastOp.path)[1] = ItemsAt(lastOp.left, lastOp.path)[1]
    /\ Len(ItemsAt(leftSide, SiblingPath(lastOp.path, "denominator"))) = 0

(***************************************************************************)
(* C18  Right after a new problem is dealt, after retry and after reset    *)
(* both sides are the empty sequence: no item built for one problem is     *)
(* there when the next problem is shown.                                   *)
(***************************************************************************)
C18_EquationStartsEmpty ==
    /\ lastOp.kind \in {"fetch", "retry", "reset"} =>
          leftSide.items = <<>> /\ rightSide.items = <<>>
    /\ (lastOp.kind = "fetch" /\ ~isLoading) =>
          IdsOf(leftSide) \cup IdsOf(rightSide) = {}

\* a new problem has been dealt on a screen that held items of the one before
C18_Witness ==
    /\ lastOp.kind = "fetch"
    /\ CountItems(lastOp.left) + CountItems(lastOp.right) = 2
    /\ problem \in Problems /\ ~isLoading
    /\ leftSide = emptySide /\ rightSide = emptySide

(***************************************************************************)
(* C19  A check that fails reaches the caller as 'could not verify', which *)
(* the caller can tell from 'verified incorrect': the screen does not show *)
(* an answer whose check failed as a wrong answer.                         *)
(***************************************************************************)
\* the verdict on the screen comes from the catch block of checkAnswer
CheckFailed == modalState.isOpen /\ modalState.explanation = Explanation([failed |-> TRUE])

\* the screen shows the answer as wrong: 'Helaas...', retry or other problem
ShownAsWrong == modalState.isOpen /\ ~modalState.isCorrect

C19_FailureIsNotIncorrect ==
    CheckFailed => ~ShownAsWrong

(***************************************************************************)
(* C20  One check at a time: from the start of a submission until its      *)
(* result is on the screen no second submission starts, whatever the       *)
(* learner does in between.                                                *)
(***************************************************************************)
C20_OneCheckOutstanding ==
    [][pending.active => ~(lastOp.kind # "submit" /\ lastOp'.kind = "submit")]_vars

\* the check is outstanding, the learner has edited the equation meanwhile
\* and the equation is complete
C20_Witness ==
    /\ pending.active /\ isChecking
    /\ lastOp.kind \in {"insert", "reorder", "remove"}
    /\ canSubmit

(***************************************************************************)
(* C21  A right-hand side whose parentheses are not balanced comes back    *)
(* from normalizeSide with its whitespace removed and nothing else         *)
(* changed.                                                                *)
(***************************************************************************)
\* the parentheses of s in the order they stand in it
Parens(s) == SelectSeq([i \in 1..Len(s) |-> CharAt(s, i)], LAMBDA c : c \in {"(", ")"})

\* every ')' of s closes a '(' before it and every '(' is closed
RECURSIVE Closes(_, _)
Closes(ps, open) ==
    IF Len(ps) = 0 THEN open = 0
    ELSE IF Head(ps) = "(" THEN Closes(Tail(ps), open + 1)
    ELSE open > 0 /\ Closes(Tail(ps), open - 1)

Balanced(s) == Closes(Parens(s), 0)

C21_UnbalancedPassesThrough ==
    (nout.checked /\ ~Balanced(nuser)) => nout.sideUser = StripWhitespace(nuser)

(***************************************************************************)
(* C28  normalizeSide takes a text as a Sqrt only when the whole text is   *)
(* one sqrt(...) term: a well-formed text that is not one sqrt term, a     *)
(* product or quotient of a sqrt term and a parenthesised group for one,   *)
(* does not come back as one sqrt term.                                    *)
(***************************************************************************)
\* the ')' at the end of s closes the '(' of position k
RECURSIVE ClosedAtEnd(_, _, _)
ClosedAtEnd(s, i, open) ==
    IF i > Len(s) THEN FALSE
    ELSE IF CharAt(s, i) = "(" THEN ClosedAtEnd(s, i + 1, open + 1)
    ELSE IF CharAt(s, i) = ")"
         THEN IF open = 1 THEN i = Len(s) ELSE ClosedAtEnd(s, i + 1, open - 1)
    ELSE ClosedAtEnd(s, i + 1, open)

\* s is one sqrt(...) term
WholeSqrt(s) == StartsWith(s, "sqrt(") /\ ClosedAtEnd(s, 5, 0)

C28_SqrtOnlyWhenWhole ==
    (nout.checked /\ Balanced(nuser) /\ ~WholeSqrt(nuser)) => ~WholeSqrt(nout.sideUser)

(***************************************************************************)
(* C22  After a move with valid source and destination paths the moved     *)
(* item is a direct child of the container the destination path addressed  *)
(* in the tree before the move: same owning item, same slot.               *)
(***************************************************************************)
\* the item that owns the container `path` addresses in `side`, 0 for the root
OwnerOf(side, path) ==
    IF Len(path) = 1 THEN 0
    ELSE getNested(JsValue("side", side), SubSeq(path, 1, Len(path) - 2)).val.id

\* the slot of its owner that `path` addresses
SlotOf(path) == IF Len(path) = 1 THEN "items" ELSE path[Len(path) - 1]

\* the identifier of the item dragged
MovedId == getNested(JsValue("side", lastOp.left), lastOp.sourcePath).val.id

\* the containers of the tree that hold the item `id` as a direct child
HoldersOf(side, id) ==
    {<<c[1], c[2]>> : c \in {d \in ContainerIds(side, 0, "items") :
                                \E k \in 1..Len(d[3]) : d[3][k] = id}}

\* the destination container lies inside the item dragged
IntoItself ==
    /\ Len(lastOp.path) > Len(lastOp.sourcePath)
    /\ SubSeq(lastOp.path, 1, Len(lastOp.sourcePath)) = lastOp.sourcePath

C22_MoveReachesDestination ==
    (ValidMove /\ ~IntoItself) =>
        HoldersOf(leftSide, MovedId) = {<<OwnerOf(lastOp.left, lastOp.path), SlotOf(lastOp.path)>>}

(***************************************************************************)
(* C27  A remove on a valid container path with an index inside the        *)
(* container takes out the item addressed and everything inside it: the    *)
(* container is one item shorter with its other items in their order, and  *)
(* every other container of the tree is as it was.                         *)
(***************************************************************************)
\* the remove recipe was run on a container of the tree and an index it has
ValidRemove ==
    /\ lastOp.kind = "removeAt"
    /\ lastOp.path \in DropZonePaths(lastOp.left, <<"items">>)
    /\ lastOp.index < Len(ItemsAt(lastOp.left, lastOp.path))

ReorderDrop == lastOp.kind \in {"reorder", "reorderAcross"}

\* the side the drop fell on, before and after the drop
ReceivedBefore == IF lastOp.side = "left" THEN lastOp.left ELSE lastOp.right

ReceivedAfter == IF lastOp.side = "left" THEN leftSide ELSE rightSide

\* the side the drag started in, before the drop
DraggedFrom ==
    IF (lastOp.kind = "reorder") = (lastOp.side = "left") THEN lastOp.left ELSE lastOp.right

\* the item whose drag started
DraggedItem == getNested(JsValue("side", DraggedFrom), lastOp.sourcePath).val

\* the containers of `side` outside the items `ids`, each without those items
OtherItems(side, ids) ==
    { <<c[1], c[2], SelectSeq(c[3], LAMBDA id : id \notin ids)>>
      : c \in {d \in ContainerIds(side, 0, "items") : d[1] \notin ids} }

C25_DropMovesDraggedItemOnly ==
    ReorderDrop =>
        LET ids == IdsOf([items |-> <<DraggedItem>>])
        IN  OtherItems(ReceivedAfter, ids) = OtherItems(ReceivedBefore, ids)

(***************************************************************************)
(* C26  Identifiers are unique and stable: at every moment the items of    *)
(* the two sides, at all depths, carry pairwise distinct identifiers; a    *)
(* move leaves every identifier with the type and token it had, and the    *)
(* moved item arrives with everything it held.                             *)
(***************************************************************************)
\* every item of the tree, at all depths, as the record it is
RECURSIVE ItemsOf(_)
ItemsOf(side) ==
    UNION { {side.items[k]}
            \cup UNION { ItemsOf(side.items[k][Slots(side.items[k])[s]])
                         : s \in 1..Len(Slots(side.items[k])) }
          : k \in 1..Len(side.items) }

C26_IdsUniqueAndStable ==
    /\ IdsOf(leftSide) \cap IdsOf(rightSide) = {}
    /\ CountItems(leftSide) = Cardinality(IdsOf(leftSide))
    /\ CountItems(rightSide) = Cardinality(IdsOf(rightSide))
    /\ ReorderDrop => Labels(ReceivedAfter) \subseteq Labels(ReceivedBefore)
    /\ (ValidMove /\ MovedId \in IdsOf(leftSide)) => DraggedItem \in ItemsOf(leftSide)

\* a Sqrt that holds an item has been moved behind the item that followed it
C26_Witness ==
    /\ ValidMove
    /\ lastOp.sourcePath = <<"items", 0>>
    /\ lastOp.path = <<"items">>
    /\ Len(lastOp.left.items) = 2
    /\ DraggedItem.type = "sqrt"
    /\ Len(DraggedItem.content.items) = 1
    /\ leftSide.items = <<lastOp.left.items[2], DraggedItem>>

(***************************************************************************)
(* C24  The serializer keeps the grouping: a complete Fraction whose       *)
(* numerator is one Fraction, (a/b)/c, and the Fraction of the same parts  *)
(* whose denominator is one Fraction, a/(b/c), are written as different    *)
(* texts.                                                                  *)
(***************************************************************************)
\* item is a Fraction whose numerator is a single Fraction
NestedInNumerator(item) ==
    /\ item.type = "fraction"
    /\ Len(item.numerator.items) = 1
    /\ item.numerator.items[1].type = "fraction"

\* (a/b)/c regrouped as a/(b/c)
Regroup(item) ==
    LET inner == item.numerator.items[1]
    IN  FractionNode(item.id, inner.numerator,
                     [items |-> <<FractionNode(inner.id, inner.denominator, item.denominator)>>])

C24_GroupingIsWritten ==
    \A k \in 1..Len(leftSide.items) :
        (isSideSubmittable(leftSide) /\ NestedInNumerator(leftSide.items[k])) =>
            serializeSide([items |-> <<leftSide.items[k]>>])
               # serializeSide([items |-> <<Regroup(leftSide.items[k])>>])

(***************************************************************************)
(* C23  For every entry of the answer table the tree that mirrors the      *)
(* reference answer is complete and its text is judged correct.            *)
(***************************************************************************)
\* the two sides are the mirror tree of the problem
MirrorBuilt ==
    /\ PartOf(leftSide, MirrorLeft(problem)) /\ PartOf(MirrorLeft(problem), leftSide)
    /\ PartOf(rightSide, MirrorRight(problem)) /\ PartOf(MirrorRight(problem), rightSide)

C23_MirrorTreeIsCorrect ==
    MirrorBuilt =>
        /\ canSubmit
        /\ checkAnswer(problem, userAnswer)
        /\ modalState.isOpen => modalState.isCorrect

(***************************************************************************)
(* C29  In classic mode the quark count is 0 when a game starts, goes up   *)
(* by one with each correct verdict while it is below MAX_QUARKS, never    *)
(* exceeds MAX_QUARKS, and is left as it is by every other step: a wrong   *)
(* verdict, a reset, a retry, a new problem.                               *)
(***************************************************************************)
\* the step shows the verdict of a check
VerdictStep == lastOp'.kind = "verdict"

C30_StreakAndHighScore ==
    /\ []((gameMode = "streak" /\ Rendered) => highScore >= streak)
    /\ [][highScore' >= highScore]_vars
    /\ [][(gameMode = "streak" /\ VerdictStep) =>
             streak' = IF pending.isCorrect THEN streak + 1 ELSE 0]_vars

\* a streak that had passed every stored high score has been broken
C30_Witness ==
    /\ gameMode = "streak"
    /\ lastOp.kind = "verdict"
    /\ modalState.isOpen /\ ~modalState.isCorrect
    /\ streak = 0
    /\ highScore = MaxStreak - 1

====
